---- MODULE Spec2Model ----
(***************************************************************************)
(* A model of scripts/build-grammar.mjs, the generator of the TextMate     *)
(* grammar of the .food language: the taxonomy (grammar/tokens.json), the  *)
(* flattening of its nested groups, the word patterns, the generated rule  *)
(* set, and the one-shot / watch build script around them.                 *)
(*                                                                         *)
(* Text is a sequence of one-character strings.  A regular expression is   *)
(* kept as the sequence of its atoms; RegexSource gives the string the     *)
(* script builds, MatchEnds the ends of its matches at a position, in the  *)
(* order a backtracking matcher tries them.                                *)
(***************************************************************************)
EXTENDS Naturals, Sequences, FiniteSets, TLC

VARIABLES
    \* ---- the build script (Spec) ----
    isWatchMode,    \* process.argv.includes('--watch')
    pc,             \* "start" | "watching" | "exited"
    exitCode,       \* exit status: "0" or "1" once pc = "exited", "none" before
    tokensFile,     \* content of grammar/tokens.json
    outputFile,     \* content of syntaxes/food.tmLanguage.json (<<>>: no file)
    outputWritable, \* whether the output location can be written
    events,         \* fs.watch notifications not yet delivered to the callback
    lastError,      \* what the last run of main() threw ("none" if nothing)
    builds,         \* number of runs of main() so far
    edits,          \* number of taxonomy edits so far
    refBuild,       \* a remembered earlier successful build: what it read and wrote
    \* ---- flattening alone (SpecFlatten) ----
    fNode,          \* the node handed to flattenArray
    fResult,        \* what flattenArray returned
    fpc,            \* "input" | "done"
    \* ---- synthesis and rendering (SpecSynth) ----
    rTokens,        \* the parsed taxonomy handed to makeGrammar
    rGrammar,       \* the rule set makeGrammar returned
    rText,          \* the text being rendered
    rPos,           \* next text position to classify (1-based)
    rStack,         \* open begin/end rules, innermost first
    rSpans,         \* classified spans so far
    rpc             \* "input" | "synthError" | "scan" | "done" | "stopped"

buildVars == <<isWatchMode, pc, exitCode, tokensFile, outputFile, outputWritable,
               events, lastError, builds, edits, refBuild>>
flatVars == <<fNode, fResult, fpc>>
synthVars == <<rTokens, rGrammar, rText, rPos, rStack, rSpans, rpc>>
vars == <<buildVars, flatVars, synthVars>>

----
\* Characters

Lower == {"a", "b", "c", "d", "e", "f", "g", "h", "i", "j", "k", "l", "m",
          "n", "o", "p", "q", "r", "s", "t", "u", "v", "w", "x", "y", "z"}
Upper == {"A", "B", "C", "D", "E", "F", "G", "H", "I", "J", "K", "L", "M",
          "N", "O", "P", "Q", "R", "S", "T", "U", "V", "W", "X", "Y", "Z"}
Digit == {"0", "1", "2", "3", "4", "5", "6", "7", "8", "9"}
\* \w
WordChar == Lower \cup Upper \cup Digit \cup {"_"}
\* \s
SpaceChar == {" ", "\t", "\n"}

\* \b at position p of text: exactly one side of p is a word character
WordBoundary(text, p) ==
    LET before == p > 1 /\ p - 1 <= Len(text) /\ text[p - 1] \in WordChar
        after == p >= 1 /\ p <= Len(text) /\ text[p] \in WordChar
    IN before # after

HasAt(text, p, w) ==
    /\ p + Len(w) - 1 <= Len(text)
    /\ \A i \in 1..Len(w) : text[p + i - 1] = w[i]

\* the end (exclusive) of the longest run of characters of class cls from p
RECURSIVE RunEnd(_, _, _)
RunEnd(text, p, cls) ==
    IF p <= Len(text) /\ text[p] \in cls THEN RunEnd(text, p + 1, cls) ELSE p

\* the positions hi, hi-1, ..., lo (a greedy quantifier gives back one by one)
RECURSIVE Downto(_, _)
Downto(hi, lo) == IF hi < lo THEN <<>> ELSE <<hi>> \o Downto(hi - 1, lo)

RECURSIVE JoinChars(_)
JoinChars(w) == IF w = <<>> THEN "" ELSE Head(w) \o JoinChars(Tail(w))

\* words.join('|')
RECURSIVE JoinWords(_)
JoinWords(words) ==
    IF words = <<>> THEN ""
    ELSE IF Len(words) = 1 THEN JoinChars(words[1])
    ELSE JoinChars(words[1]) \o "|" \o JoinWords(Tail(words))

----
\* Regular expressions, as the sequences of atoms the script's strings spell

Atom(op, words, src) == [op |-> op, words |-> words, src |-> src]
ReWB == Atom("wb", <<>>, "\\b")
ReAlt(words) == Atom("alt", words, "(?:" \o JoinWords(words) \o ")")
\* literal characters w, spelled src in the pattern
ReLit(w, src) == Atom("lit", <<w>>, src)
ReCallAhead == Atom("callAhead", <<>>, "(?=\\s*\\()")
ReParenAhead == Atom("parenAhead", <<>>, "(?=\\()")
ReIdent == Atom("ident", <<>>, "[A-Za-z_][\\w]*")
ReLowerIdent == Atom("lowerIdent", <<>>, "[a-z_][A-Za-z0-9_]*")
ReSpaces1 == Atom("spaces1", <<>>, "\\s+")
ReSpaces0 == Atom("spaces0", <<>>, "\\s*")
ReRestOfLine == Atom("restOfLine", <<>>, ".*$")
ReAnyChar == Atom("anyChar", <<>>, ".")
\* ( and ): a capture group's brackets, which match nothing themselves
ReOpen == Atom("open", <<>>, "(")
ReClose == Atom("close", <<>>, ")")
ReOpenNC == Atom("open", <<>>, "(?:")

\* the pattern string the script writes for a regular expression
RECURSIVE RegexSource(_)
RegexSource(re) ==
    IF re = <<>> THEN "" ELSE Head(re).src \o RegexSource(Tail(re))

\* the ends of the alternatives of (?:w1|w2|...) that match at p, in order
RECURSIVE AltEnds(_, _, _)
AltEnds(words, text, p) ==
    IF words = <<>> THEN <<>>
    ELSE (IF HasAt(text, p, Head(words)) THEN <<p + Len(Head(words))>> ELSE <<>>)
         \o AltEnds(Tail(words), text, p)

\* the ends of one atom's matches at p, in the order the matcher tries them
AtomEnds(a, text, p) ==
    CASE a.op = "wb" -> IF WordBoundary(text, p) THEN <<p>> ELSE <<>>
      [] a.op = "alt" -> AltEnds(a.words, text, p)
      [] a.op = "lit" -> AltEnds(a.words, text, p)
      [] a.op = "callAhead" ->
            LET q == RunEnd(text, p, SpaceChar)
            IN IF q <= Len(text) /\ text[q] = "(" THEN <<p>> ELSE <<>>
      [] a.op = "parenAhead" ->
            IF p <= Len(text) /\ text[p] = "(" THEN <<p>> ELSE <<>>
      [] a.op = "ident" ->
            IF p <= Len(text) /\ text[p] \in Lower \cup Upper \cup {"_"}
            THEN Downto(RunEnd(text, p + 1, WordChar), p + 1) ELSE <<>>
      [] a.op = "lowerIdent" ->
            IF p <= Len(text) /\ text[p] \in Lower \cup {"_"}
            THEN Downto(RunEnd(text, p + 1, WordChar), p + 1) ELSE <<>>
      [] a.op = "spaces1" -> Downto(RunEnd(text, p, SpaceChar), p + 1)
      [] a.op = "spaces0" -> Downto(RunEnd(text, p, SpaceChar), p)
      [] a.op = "restOfLine" ->
            <<RunEnd(text, p, {text[i] : i \in 1..Len(text)} \ {"\n"})>>
      [] a.op = "anyChar" ->
            IF p <= Len(text) /\ text[p] # "\n" THEN <<p + 1>> ELSE <<>>
      [] a.op \in {"open", "close"} -> <<p>>

\* the ends of the matches of re[i..] at p, first the one the matcher finds
RECURSIVE EndsFrom(_, _, _, _)
RECURSIVE EndsOver(_, _, _, _)
EndsFrom(re, i, text, p) ==
    IF i > Len(re) THEN <<p>>
    ELSE EndsOver(re, i, text, AtomEnds(re[i], text, p))
EndsOver(re, i, text, ends) ==
    IF ends = <<>> THEN <<>>
    ELSE EndsFrom(re, i + 1, text, Head(ends)) \o EndsOver(re, i, text, Tail(ends))

MatchEnds(re, text, p) == EndsFrom(re, 1, text, p)
Matches(re, text, p) == MatchEnds(re, text, p) # <<>>
\* the end of the match the matcher reports at p
MatchEnd(re, text, p) == Head(MatchEnds(re, text, p))

----
\* Parsed JSON values of the taxonomy.  An object lists its keys and values in
\* iteration order; an array holds names; a scalar is a truthy string or number.

Arr(items) == [t |-> "arr", items |-> items, keys |-> <<>>, kids |-> <<>>]
Obj(keys, kids) == [t |-> "obj", items |-> <<>>, keys |-> keys, kids |-> kids]
Undefined == [t |-> "undef", items |-> <<>>, keys |-> <<>>, kids |-> <<>>]
Null == [t |-> "null", items |-> <<>>, keys |-> <<>>, kids |-> <<>>]
Scalar == [t |-> "scalar", items |-> <<>>, keys |-> <<>>, kids |-> <<>>]

\* what a function returns, or that it threw
Return(v) == [err |-> FALSE, val |-> v]
Throw == [err |-> TRUE, val |-> <<>>]

\* obj.key
Property(obj, key) ==
    IF obj.t = "obj" /\ \E i \in 1..Len(obj.keys) : obj.keys[i] = key
    THEN obj.kids[CHOOSE i \in 1..Len(obj.keys) : obj.keys[i] = key]
    ELSE Undefined

\* value || []
OrEmptyArray(value) == IF value.t \in {"undef", "null"} THEN Arr(<<>>) ELSE value

\* Object.values(obj): a scalar has no values that are arrays or objects
ObjectValues(obj) == IF obj.t = "obj" THEN obj.kids ELSE <<>>

createWordPatternNoTrailingBoundary(words) ==
    IF words.t \in {"undef", "null"} THEN Return(<<>>)
    ELSE IF words.t # "arr" THEN Throw
    ELSE IF Len(words.items) = 0 THEN Return(<<>>)
    ELSE Return(<<ReWB, ReAlt(words.items)>>)

\* createWordPattern: '' for no words, else \b(?:w1|w2|...)\b; words.join
\* throws on a value that is no array
createWordPattern(words) ==
    IF words.t \in {"undef", "null"} THEN Return(<<>>)
    ELSE IF words.t # "arr" THEN Throw
    ELSE IF Len(words.items) = 0 THEN Return(<<>>)
    ELSE Return(<<ReWB, ReAlt(words.items), ReWB>>)

RECURSIVE flattenArrayDropNested(_)
RECURSIVE flattenValuesDropNested(_)
flattenArrayDropNested(obj) ==
    IF obj.t = "arr" THEN Return(obj.items)
    ELSE IF obj.t \in {"undef", "null"} THEN Throw
    ELSE flattenValuesDropNested(ObjectValues(obj))
flattenValuesDropNested(values) ==
    IF values = <<>> THEN Return(<<>>)
    ELSE LET value == Head(values)
             rest == flattenValuesDropNested(Tail(values))
         IN IF rest.err THEN Throw
            ELSE IF value.t = "arr" THEN Return(value.items \o rest.val)
            ELSE rest

\* flattenArray: the array itself, or the concatenation over Object.values of
\* the arrays and of the flattened objects (typeof null is 'object' too);
\* Object.values throws on undefined and null
RECURSIVE flattenArray(_)
RECURSIVE flattenValues(_)
flattenArray(obj) ==
    IF obj.t = "arr" THEN Return(obj.items)
    ELSE IF obj.t \in {"undef", "null"} THEN Throw
    ELSE flattenValues(ObjectValues(obj))
\* the forEach of flattenArray over the values left to visit
flattenValues(values) ==
    IF values = <<>> THEN Return(<<>>)
    ELSE LET value == Head(values)
             first == IF value.t = "arr" THEN Return(value.items)
                      ELSE IF value.t \in {"obj", "null"} THEN flattenArray(value)
                      ELSE Return(<<>>)
             rest == flattenValues(Tail(values))
         IN IF first.err \/ rest.err THEN Throw
            ELSE Return(first.val \o rest.val)

----
\* The generated rule set

\* the taxonomy's keys
K_keywords == <<"k", "e", "y", "w", "o", "r", "d", "s">>
K_declaration == <<"d", "e", "c", "l", "a", "r", "a", "t", "i", "o", "n">>
K_control == <<"c", "o", "n", "t", "r", "o", "l">>
K_types == <<"t", "y", "p", "e", "s">>
K_builtins == <<"b", "u", "i", "l", "t", "i", "n", "s">>
K_actions == <<"a", "c", "t", "i", "o", "n", "s">>

MatchRule(name, match) ==
    [kind |-> "match", name |-> name, match |-> match, begin |-> <<>>,
     end |-> <<>>, captures |-> <<>>, patterns |-> <<>>]
BeginEndRule(name, begin, captures, end, patterns) ==
    [kind |-> "beginEnd", name |-> name, match |-> <<>>, begin |-> begin,
     end |-> end, captures |-> captures, patterns |-> patterns]
Include(ruleName) ==
    [kind |-> "include", name |-> ruleName, match |-> <<>>, begin |-> <<>>,
     end |-> <<>>, captures |-> <<>>, patterns |-> <<>>]
\* capture group number n, whose brackets are atoms open and close of the pattern
Capture(n, open, close, name) ==
    [group |-> n, open |-> open, close |-> close, name |-> name]

RepositoryNames == <<"comments", "strings", "keywords", "types", "builtins",
                     "actions", "functions", "variables">>

TopLevelPatternsFallbackFirst ==
    <<Include("functions"), Include("variables"), Include("comments"),
      Include("strings"), Include("keywords"), Include("types"),
      Include("builtins"), Include("actions")>>

\* grammar.patterns
TopLevelPatterns ==
    <<Include("comments"), Include("strings"), Include("keywords"),
      Include("types"), Include("builtins"), Include("actions"),
      Include("functions"), Include("variables")>>

CommentRules ==
    <<MatchRule("comment.line.double-slash.food",
                <<ReLit(<<"/", "/">>, "//"), ReRestOfLine>>),
      BeginEndRule("comment.block.food", <<ReLit(<<"/", "*">>, "/\\*")>>, <<>>,
                   <<ReLit(<<"*", "/">>, "\\*/")>>, <<Include("comments")>>)>>

StringRules ==
    <<BeginEndRule("string.quoted.double.food", <<ReLit(<<"\"">>, "\"")>>, <<>>,
                   <<ReLit(<<"\"">>, "\"")>>,
                   <<MatchRule("constant.character.escape.food",
                               <<ReLit(<<"\\">>, "\\\\"), ReAnyChar>>)>>)>>

KeywordRules(declKeywords, controlKeywords) ==
    <<MatchRule("keyword.declaration.food", declKeywords),
      MatchRule("keyword.control.food", controlKeywords)>>

TypeRules(typesPattern) == <<MatchRule("support.class.food", typesPattern)>>

BuiltinRulesNoLookahead(builtinsPattern) ==
    <<MatchRule("support.function.builtin.food", builtinsPattern)>>

BuiltinRules(builtinsPattern) ==
    <<MatchRule("support.function.builtin.food", builtinsPattern \o <<ReCallAhead>>)>>

ActionRulesNoDot(actionsPattern) ==
    <<MatchRule("support.function.method.food", actionsPattern \o <<ReCallAhead>>)>>

ActionRules(actionsPattern) ==
    <<MatchRule("support.function.method.food",
                <<ReLit(<<".">>, "\\.")>> \o actionsPattern \o <<ReCallAhead>>)>>

FunctionRules ==
    <<BeginEndRule("meta.function.food",
                   <<ReWB, ReOpen, ReLit(<<"f", "n">>, "fn"), ReClose, ReWB,
                     ReSpaces1, ReOpen, ReIdent, ReClose, ReSpaces0, ReParenAhead>>,
                   <<Capture(1, 2, 4, "keyword.declaration.food"),
                     Capture(2, 7, 9, "entity.name.function.food")>>,
                   <<ReParenAhead>>, <<>>),
      MatchRule("entity.name.function.food",
                <<ReWB, ReOpen, ReIdent, ReClose, ReWB, ReCallAhead>>)>>

VariableRules ==
    <<MatchRule("variable.other.property.food",
                <<ReLit(<<".">>, "\\."), ReOpenNC, ReIdent, ReClose>>),
      MatchRule("variable.other.food", <<ReWB, ReLowerIdent, ReWB>>)>>

\* the grammar object literal of makeGrammar
Grammar(declKeywords, controlKeywords, typesPattern, builtinsPattern, actionsPattern) ==
    [name |-> "food",
     scopeName |-> "source.food",
     fileTypes |-> <<"food">>,
     patterns |-> TopLevelPatterns,
     repository |->
        [comments |-> CommentRules,
         strings |-> StringRules,
         keywords |-> KeywordRules(declKeywords, controlKeywords),
         types |-> TypeRules(typesPattern),
         builtins |-> BuiltinRules(builtinsPattern),
         actions |-> ActionRules(actionsPattern),
         functions |-> FunctionRules,
         variables |-> VariableRules]]

\* flattenArray(tokens.<key>) then createWordPattern
FlatPattern(tokens, key) ==
    LET all == flattenArray(Property(tokens, key))
    IN IF all.err THEN Throw ELSE createWordPattern(Arr(all.val))

\* makeGrammar: the five patterns, then the grammar; tokens.keywords throws
\* on null
makeGrammar(tokens) ==
    IF tokens.t \in {"undef", "null"} THEN Throw
    ELSE LET keywords == Property(tokens, K_keywords)
             declKeywords ==
                createWordPattern(OrEmptyArray(Property(keywords, K_declaration)))
             controlKeywords ==
                createWordPattern(OrEmptyArray(Property(keywords, K_control)))
             typesPattern == FlatPattern(tokens, K_types)
             builtinsPattern ==
                createWordPattern(OrEmptyArray(Property(tokens, K_builtins)))
             actionsPattern == FlatPattern(tokens, K_actions)
         IN IF \/ declKeywords.err \/ controlKeywords.err \/ typesPattern.err
               \/ builtinsPattern.err \/ actionsPattern.err
            THEN Throw
            ELSE Return(Grammar(declKeywords.val, controlKeywords.val,
                                typesPattern.val, builtinsPattern.val,
                                actionsPattern.val))

----
\* Rendering: the rules tried in emitted order at each text position, the
\* first match winning

Span(from, to, scope) == [from |-> from, to |-> to, scope |-> scope]

\* the rules a pattern list stands for, its includes replaced by the
\* repository's rules of that name
RECURSIVE Resolve(_, _)
Resolve(g, patterns) ==
    IF patterns = <<>> THEN <<>>
    ELSE (IF Head(patterns).kind = "include"
          THEN g.repository[Head(patterns).name]
          ELSE <<Head(patterns)>>)
         \o Resolve(g, Tail(patterns))

Candidate(rule, isEnd) ==
    [rule |-> rule, isEnd |-> isEnd,
     re |-> IF isEnd THEN rule.end
            ELSE IF rule.kind = "beginEnd" THEN rule.begin ELSE rule.match]

\* a rule whose match string is empty is no match rule: it is never tried
Inert(rule) == rule.kind = "match" /\ rule.match = <<>>

RECURSIVE AsCandidates(_)
AsCandidates(rules) ==
    IF rules = <<>> THEN <<>>
    ELSE (IF Inert(Head(rules)) THEN <<>> ELSE <<Candidate(Head(rules), FALSE)>>)
         \o AsCandidates(Tail(rules))

\* what is tried at a position: the end of the innermost open rule, then its
\* patterns; the top-level patterns when no rule is open
Candidates(g, stack) ==
    IF stack = <<>> THEN AsCandidates(Resolve(g, g.patterns))
    ELSE <<Candidate(Head(stack).rule, TRUE)>>
         \o AsCandidates(Resolve(g, Head(stack).rule.patterns))

MatchingAt(g, stack, text, p) ==
    SelectSeq(Candidates(g, stack), LAMBDA c : Matches(c.re, text, p))

\* a match rule that matched no character: the renderer makes no progress
ZeroWidth(c, text, p) ==
    ~c.isEnd /\ c.rule.kind = "match" /\ MatchEnd(c.re, text, p) = p

\* the spans of a begin rule's capture groups
RECURSIVE CaptureSpans(_, _, _, _)
CaptureSpans(captures, re, text, p) ==
    IF captures = <<>> THEN <<>>
    ELSE LET c == Head(captures)
         IN <<Span(MatchEnd(SubSeq(re, 1, c.open), text, p),
                   MatchEnd(SubSeq(re, 1, c.close), text, p), c.name)>>
            \o CaptureSpans(Tail(captures), re, text, p)

\* the spans of the rules still open at the end of the text
RECURSIVE OpenSpans(_, _)
OpenSpans(stack, to) ==
    IF stack = <<>> THEN <<>>
    ELSE <<Span(Head(stack).start, to, Head(stack).rule.name)>>
         \o OpenSpans(Tail(stack), to)

\* candidate c, matched at rPos, takes effect
Apply(c) ==
    LET e == MatchEnd(c.re, rText, rPos)
    IN /\ rPos' = e
       /\ IF c.isEnd
          THEN /\ rStack' = Tail(rStack)
               /\ rSpans' = Append(rSpans, Span(Head(rStack).start, e, c.rule.name))
          ELSE IF c.rule.kind = "beginEnd"
          THEN /\ rStack' = <<[rule |-> c.rule, start |-> rPos]>> \o rStack
               /\ rSpans' = rSpans \o CaptureSpans(c.rule.captures, c.re, rText, rPos)
          ELSE /\ rStack' = rStack
               /\ rSpans' = Append(rSpans, Span(rPos, e, c.rule.name))
       /\ UNCHANGED <<rTokens, rGrammar, rText, rpc>>

\* makeGrammar(tokens) returns
Synthesize ==
    /\ UNCHANGED <<buildVars, flatVars>>
    /\ rpc = "input"
    /\ ~makeGrammar(rTokens).err
    /\ rGrammar' = makeGrammar(rTokens).val
    /\ rpc' = "scan"
    /\ UNCHANGED <<rTokens, rText, rPos, rStack, rSpans>>

\* makeGrammar(tokens) throws
SynthesizeThrows ==
    /\ UNCHANGED <<buildVars, flatVars>>
    /\ rpc = "input"
    /\ makeGrammar(rTokens).err
    /\ rpc' = "synthError"
    /\ UNCHANGED <<rTokens, rGrammar, rText, rPos, rStack, rSpans>>

\* the first rule matching at rPos matches at least one character, or closes
\* or opens a begin/end rule
ScanMatch ==
    /\ UNCHANGED <<buildVars, flatVars>>
    /\ rpc = "scan" /\ rPos <= Len(rText)
    /\ LET m == MatchingAt(rGrammar, rStack, rText, rPos)
       IN /\ m # <<>>
          /\ ~ZeroWidth(m[1], rText, rPos)
          /\ Apply(m[1])

\* no rule matches at rPos
ScanAdvance ==
    /\ UNCHANGED <<buildVars, flatVars>>
    /\ rpc = "scan" /\ rPos <= Len(rText)
    /\ MatchingAt(rGrammar, rStack, rText, rPos) = <<>>
    /\ rPos' = rPos + 1
    /\ UNCHANGED <<rTokens, rGrammar, rText, rStack, rSpans, rpc>>

\* the first rule matching at rPos matches the empty string, and the renderer
\* gives the rest of the text up
ScanZeroStop ==
    /\ UNCHANGED <<buildVars, flatVars>>
    /\ rpc = "scan" /\ rPos <= Len(rText)
    /\ LET m == MatchingAt(rGrammar, rStack, rText, rPos)
       IN m # <<>> /\ ZeroWidth(m[1], rText, rPos)
    /\ rpc' = "stopped"
    /\ UNCHANGED <<rTokens, rGrammar, rText, rPos, rStack, rSpans>>

\* the first rule matching at rPos matches the empty string, and the renderer
\* passes over the empty matches
ScanZeroSkip ==
    /\ UNCHANGED <<buildVars, flatVars>>
    /\ rpc = "scan" /\ rPos <= Len(rText)
    /\ LET m == MatchingAt(rGrammar, rStack, rText, rPos)
           rest == SelectSeq(m, LAMBDA c : ~ZeroWidth(c, rText, rPos))
       IN /\ m # <<>> /\ ZeroWidth(m[1], rText, rPos)
          /\ IF rest # <<>> THEN Apply(rest[1])
             ELSE /\ rPos' = rPos + 1
                  /\ UNCHANGED <<rTokens, rGrammar, rText, rStack, rSpans, rpc>>

\* the end of the text: the rules still open span the rest of it
ScanFinish ==
    /\ UNCHANGED <<buildVars, flatVars>>
    /\ rpc = "scan" /\ rPos > Len(rText)
    /\ rpc' = "done"
    /\ rSpans' = rSpans \o OpenSpans(rStack, rPos)
    /\ rStack' = <<>>
    /\ UNCHANGED <<rTokens, rGrammar, rText, rPos>>

----
\* Inputs of synthesis and rendering

\* longest generated text
MaxTextLen == 3

K_ingredients == <<"i", "n", "g", "r", "e", "d", "i", "e", "n", "t", "s">>
K_utensils == <<"u", "t", "e", "n", "s", "i", "l", "s">>
K_utensil == <<"u", "t", "e", "n", "s", "i", "l">>
K_other == <<"o", "t", "h", "e", "r">>

\* an object of the pairs whose value is present
Pairs(pairs) ==
    LET present == SelectSeq(pairs, LAMBDA kv : kv[2].t # "undef")
    IN Obj([i \in 1..Len(present) |-> present[i][1]],
           [i \in 1..Len(present) |-> present[i][2]])

Taxonomy(keywords, types, builtins, actions) ==
    Pairs(<<<<K_keywords, keywords>>, <<K_types, types>>,
            <<K_builtins, builtins>>, <<K_actions, actions>>>>)

\* the taxonomy of the rendering example
ExampleTaxonomy ==
    Taxonomy(Pairs(<<<<K_declaration, Arr(<<<<"f", "n">>>>)>>>>),
             Pairs(<<<<K_utensils, Arr(<<<<"P", "o", "t">>>>)>>>>),
             Arr(<<<<"w", "a", "i", "t">>>>),
             Pairs(<<<<K_utensil, Arr(<<<<"b", "o", "i", "l">>>>)>>>>))

\* fn cook() { pot = new Pot() pot.boil() wait("1m") }
ExampleText ==
    <<"f", "n", " ", "c", "o", "o", "k", "(", ")", " ", "{", " ", "p", "o",
      "t", " ", "=", " ", "n", "e", "w", " ", "P", "o", "t", "(", ")", " ",
      "p", "o", "t", ".", "b", "o", "i", "l", "(", ")", " ", "w", "a", "i",
      "t", "(", "\"", "1", "m", "\"", ")", " ", "}">>

Mix == <<"m", "i", "x">>
MixTogether == <<"m", "i", "x", "T", "o", "g", "e", "t", "h", "e", "r">>

\* a shorter name listed before a longer one it is a prefix of
PrefixTaxonomy ==
    Taxonomy(Pairs(<<<<K_declaration, Arr(<<Mix, MixTogether>>)>>>>),
             Pairs(<<<<K_utensils, Arr(<<Mix, MixTogether>>)>>>>),
             Arr(<<Mix, MixTogether>>),
             Pairs(<<<<K_utensil, Arr(<<Mix, MixTogether>>)>>>>))

KeywordChoices ==
    {Undefined,
     Pairs(<<<<K_declaration, Arr(<<>>)>>, <<K_control, Arr(<<>>)>>>>),
     Pairs(<<<<K_declaration, Arr(<<<<"b">>>>)>>>>)}
TypeChoices ==
    {Undefined,
     Pairs(<<>>),
     Pairs(<<<<K_ingredients, Arr(<<<<"a">>, <<"a", "b">>>>)>>,
             <<K_utensils, Arr(<<>>)>>>>)}
BuiltinChoices ==
    {Undefined, Arr(<<>>), Arr(<<<<"a">>, <<"a", "b">>>>)}
ActionChoices ==
    {Undefined,
     Pairs(<<<<K_utensil, Arr(<<>>)>>>>),
     Pairs(<<<<K_utensil, Arr(<<<<"b">>>>)>>,
             <<K_other, Pairs(<<<<K_utensils, Arr(<<<<"a", "b">>>>)>>>>)>>>>)}

SynthTaxonomies ==
    {Taxonomy(k, t, b, a) : k \in KeywordChoices, t \in TypeChoices,
                            b \in BuiltinChoices, a \in ActionChoices}
    \cup {ExampleTaxonomy, PrefixTaxonomy, Null,
          Taxonomy(Scalar, Pairs(<<>>), Arr(<<>>), Pairs(<<>>)),
          Taxonomy(Undefined, Pairs(<<<<K_other, Null>>>>), Arr(<<>>), Pairs(<<>>))}

TextChars == {"a", "b", "(", ".", " "}

SynthTexts ==
    UNION {[1..n -> TextChars] : n \in 0..MaxTextLen}
    \cup {ExampleText,
          MixTogether \o <<"(">>,
          Mix \o <<"(">>,
          <<"r", "e">> \o Mix \o <<" ">> \o MixTogether \o <<"s", "(">>,
          <<"/", "/", " ">> \o Mix,
          <<"\"", "a", "\\", "\"", "(", "\"", "a", "(">>,
          <<"/", "*", "a", "(", "/", "*", "*", "/", "b", "*", "/", "a", " ", "(">>,
          <<"f", "n", " ", "a", "b", "(", ")">>}

\* the build script and the flattening stand still
NoFile == [valid |-> FALSE, doc |-> Undefined]
NoBuild == [taken |-> FALSE, at |-> 0, read |-> NoFile, wrote |-> <<>>]
BuildIdle ==
    /\ isWatchMode = FALSE /\ pc = "exited" /\ exitCode = "none"
    /\ tokensFile = NoFile /\ outputFile = <<>> /\ outputWritable = TRUE
    /\ events = <<>> /\ lastError = "none" /\ builds = 0 /\ edits = 0
    /\ refBuild = NoBuild
FlattenIdle == fNode = Undefined /\ fResult = Throw /\ fpc = "done"
SynthIdle ==
    /\ rTokens = Undefined /\ rGrammar = <<>> /\ rText = <<>> /\ rPos = 1
    /\ rStack = <<>> /\ rSpans = <<>> /\ rpc = "done"

InitSynth ==
    /\ BuildIdle /\ FlattenIdle
    /\ rTokens \in SynthTaxonomies
    /\ rText \in SynthTexts
    /\ rGrammar = <<>> /\ rPos = 1 /\ rStack = <<>> /\ rSpans = <<>>
    /\ rpc = "input"

NextSynth ==
    \/ Synthesize
    \/ SynthesizeThrows
    \/ ScanMatch
    \/ ScanAdvance
    \/ ScanZeroStop
    \/ ScanZeroSkip
    \/ ScanFinish

SpecSynth == InitSynth /\ [][NextSynth]_vars

----
\* Claims about synthesis and rendering (SpecSynth)

Synthesized == rpc \in {"scan", "done", "stopped"}

Range(seq) == {seq[i] : i \in 1..Len(seq)}

\* a group whose leaves are all arrays of names
RECURSIVE TreeShaped(_)
TreeShaped(node) ==
    \/ node.t = "arr"
    \/ node.t = "obj" /\ \A i \in 1..Len(node.kids) : TreeShaped(node.kids[i])

\* a taxonomy document in which every category is absent or of its shape
CategoriesAbsentOrShaped(tokens) ==
    /\ tokens.t = "obj"
    /\ LET keywords == Property(tokens, K_keywords)
       IN \/ keywords.t = "undef"
          \/ /\ keywords.t = "obj"
             /\ \A i \in 1..Len(keywords.kids) : keywords.kids[i].t = "arr"
    /\ \A key \in {K_types, K_actions} :
          Property(tokens, key).t = "undef" \/ TreeShaped(Property(tokens, key))
    /\ Property(tokens, K_builtins).t \in {"undef", "arr"}

\* the document with each absent category put in, empty
WithEmptyForAbsent(tokens) ==
    LET orObj(v) == IF v.t = "undef" THEN Pairs(<<>>) ELSE v
    IN Taxonomy(orObj(Property(tokens, K_keywords)),
                orObj(Property(tokens, K_types)),
                OrEmptyArray(Property(tokens, K_builtins)),
                orObj(Property(tokens, K_actions)))

\* C1: for every taxonomy with any subset of the four categories absent,
\* makeGrammar returns a rule set and does not throw, and the rule set is the
\* one of the same taxonomy with the absent categories present and empty.
C1_AbsentCategoriesTolerated ==
    (rpc # "input" /\ CategoriesAbsentOrShaped(rTokens)) =>
        /\ rpc # "synthError"
        /\ rGrammar = makeGrammar(WithEmptyForAbsent(rTokens)).val

\* the names each category gives its rule
CategoryNames(tokens) ==
    LET keywords == Property(tokens, K_keywords)
        listed(v) == IF v.t = "arr" THEN v.items ELSE <<>>
        flat(v) == IF flattenArray(v).err THEN <<>> ELSE flattenArray(v).val
    IN [declaration |-> listed(Property(keywords, K_declaration)),
        control |-> listed(Property(keywords, K_control)),
        types |-> flat(Property(tokens, K_types)),
        builtins |-> listed(Property(tokens, K_builtins)),
        actions |-> flat(Property(tokens, K_actions))]

CategoryScope ==
    [declaration |-> "keyword.declaration.food",
     control |-> "keyword.control.food",
     types |-> "support.class.food",
     builtins |-> "support.function.builtin.food",
     actions |-> "support.function.method.food"]

Categories == {"declaration", "control", "types", "builtins", "actions"}

\* every rule of the repository, whatever its name
RepositoryRules(g) ==
    UNION {Range(g.repository[RepositoryNames[i]]) : i \in 1..Len(RepositoryNames)}

CanMatchIn(re, text) == \E p \in 1..(Len(text) + 1) : Matches(re, text, p)

\* C2: when a category is empty, the rule set holds no rule with that
\* category's scope whose pattern can match text (here: the rendered text).
C2_NoRuleForEmptyCategory ==
    Synthesized =>
        \A cat \in Categories :
            CategoryNames(rTokens)[cat] = <<>> =>
                ~\E rule \in RepositoryRules(rGrammar) :
                    /\ rule.kind = "match"
                    /\ rule.name = CategoryScope[cat]
                    /\ CanMatchIn(rule.match, rText)

RECURSIVE IncludeNames(_)
IncludeNames(patterns) ==
    IF patterns = <<>> THEN <<>>
    ELSE <<Head(patterns).name>> \o IncludeNames(Tail(patterns))

EarlyScopes ==
    {"comment.line.double-slash.food", "comment.block.food",
     "string.quoted.double.food", "keyword.declaration.food",
     "keyword.control.food"}
FallbackScopes ==
    {"meta.function.food", "entity.name.function.food",
     "variable.other.property.food", "variable.other.food"}

\* C4: the top-level patterns are comments, strings, keywords, types,
\* builtins, actions, functions, variables in that order, whatever the taxonomy;
\* the declaration rule precedes the control rule; and of the rules tried at a
\* top-level position every comment, string and keyword rule comes before
\* every function and identifier fallback.
C4_PatternOrder ==
    Synthesized =>
        /\ \A i \in 1..Len(rGrammar.patterns) : rGrammar.patterns[i].kind = "include"
        /\ IncludeNames(rGrammar.patterns) = RepositoryNames
        /\ IncludeNames(rGrammar.repository.keywords) =
              <<"keyword.declaration.food", "keyword.control.food">>
        /\ LET tried == Resolve(rGrammar, rGrammar.patterns)
           IN \A i, j \in 1..Len(tried) :
                 (tried[i].name \in EarlyScopes
                    /\ tried[j].name \in FallbackScopes) => i < j

C4_Witness ==
    /\ rpc = "done" /\ rTokens = ExampleTaxonomy /\ rText = ExampleText
    /\ Len(Resolve(rGrammar, rGrammar.patterns)) = 12

IdentStart(text, p) == p = 1 \/ text[p - 1] \notin WordChar
IdentEnd(text, e) == e > Len(text) \/ text[e] \notin WordChar

\* pattern re matches in text exactly the whole identifiers that are names
WholeNamesOnly(re, names, text) ==
    /\ \A p \in 1..(Len(text) + 1) :
          Matches(re, text, p) =>
              LET e == MatchEnd(re, text, p)
              IN /\ SubSeq(text, p, e - 1) \in Range(names)
                 /\ IdentStart(text, p) /\ IdentEnd(text, e)
    /\ \A p \in 1..Len(text) :
          LET e == RunEnd(text, p, WordChar)
          IN (IdentStart(text, p) /\ SubSeq(text, p, e - 1) \in Range(names)) =>
                (Matches(re, text, p) /\ MatchEnd(re, text, p) = e)

\* C5: the pattern createWordPattern builds from a non-empty name sequence
\* (the type rule's and the declaration rule's pattern) matches a name only
\* as a whole identifier, and matches every whole identifier that is a name
\* in full, also when an earlier name is a prefix of it.
C5_WholeIdentifierOnly ==
    Synthesized =>
        /\ CategoryNames(rTokens).types # <<>> =>
              WholeNamesOnly(rGrammar.repository.types[1].match,
                             CategoryNames(rTokens).types, rText)
        /\ CategoryNames(rTokens).declaration # <<>> =>
              WholeNamesOnly(rGrammar.repository.keywords[1].match,
                             CategoryNames(rTokens).declaration, rText)

C5_Witness ==
    /\ rpc = "done" /\ rTokens = PrefixTaxonomy /\ rText = MixTogether \o <<"(">>
    /\ MatchEnds(rGrammar.repository.types[1].match, rText, 1) = <<12>>
    /\ Span(1, 12, "keyword.declaration.food") \in Range(rSpans)

CallParenAt(text, e) ==
    LET q == RunEnd(text, e, SpaceChar) IN q <= Len(text) /\ text[q] = "("

\* C6: every span classified as a builtin call is a builtin name followed,
\* after optional whitespace, by an opening parenthesis that is not part of
\* the span; the builtin rule matches nowhere else.
C6_BuiltinNeedsCallParen ==
    Synthesized =>
        /\ \A i \in 1..Len(rSpans) :
              rSpans[i].scope = "support.function.builtin.food" =>
                  /\ SubSeq(rText, rSpans[i].from, rSpans[i].to - 1)
                        \in Range(CategoryNames(rTokens).builtins)
                  /\ CallParenAt(rText, rSpans[i].to)
        /\ \A p \in 1..(Len(rText) + 1) :
              LET re == rGrammar.repository.builtins[1].match
              IN Matches(re, rText, p) =>
                    /\ CallParenAt(rText, MatchEnd(re, rText, p))
                    /\ "(" \notin Range(SubSeq(rText, p, MatchEnd(re, rText, p) - 1))

\* a builtin name stands alone without a call parenthesis and is not
\* classified a builtin, while another occurrence, called, is
C6_Witness ==
    /\ rpc = "done"
    /\ \E i \in 1..Len(rSpans) : rSpans[i].scope = "support.function.builtin.food"
    /\ \E p \in 1..Len(rText) :
          LET e == RunEnd(rText, p, WordChar)
          IN /\ IdentStart(rText, p)
             /\ SubSeq(rText, p, e - 1) \in Range(CategoryNames(rTokens).builtins)
             /\ ~CallParenAt(rText, e)
             /\ \A i \in 1..Len(rSpans) :
                   rSpans[i].scope = "support.function.builtin.food" =>
                       (rSpans[i].to <= p \/ rSpans[i].from >= e)

\* the scopes of the spans that overlap text positions from..to-1
ScopesOver(from, to) ==
    {rSpans[i].scope : i \in {j \in 1..Len(rSpans) :
                                 rSpans[j].from < to /\ rSpans[j].to > from}}

ExampleRendered ==
    rpc = "done" /\ rTokens = ExampleTaxonomy /\ rText = ExampleText

\* what the rendering example classifies apart from cook
ExampleOthers ==
    /\ ScopesOver(1, 3) = {"keyword.declaration.food"}
    /\ ScopesOver(23, 26) = {"support.class.food"}
    /\ ScopesOver(33, 37) = {"support.function.method.food"}
    /\ ScopesOver(40, 44) = {"support.function.builtin.food"}
    /\ ScopesOver(13, 16) = {"variable.other.food"}
    /\ ScopesOver(29, 32) = {"variable.other.food"}

\* C7 as stated: in the rendering example fn is a declaration keyword, Pot a
\* type, boil an action, wait a builtin, and pot and cook plain identifiers.
C7_AsStated ==
    ExampleRendered => (ExampleOthers /\ ScopesOver(4, 8) = {"variable.other.food"})

\* C7 amended: in the rendering example fn is a declaration keyword, Pot a
\* type, boil an action, wait a builtin and pot a plain identifier, while cook,
\* which an opening parenthesis follows, is a function name.
C7_ExampleClassification ==
    ExampleRendered =>
        (ExampleOthers /\ ScopesOver(4, 8) = {"entity.name.function.food"})

C7_Witness == ExampleRendered /\ Len(rSpans) = 9

----
\* Flattening alone (SpecFlatten)

\* most nodes (arrays and objects) of a generated group
MaxNodes == 5

\* the i-th key of an object: k, kk, kkk, ...
KeyName(i) == [j \in 1..i |-> "k"]

\* the leaf arrays; k is a name and a key
Leaves == {Arr(<<>>), Arr(<<<<"x">>>>), Arr(<<<<"k">>, <<"x">>>>)}

\* the groups of exactly n nodes, and the value lists of n nodes in all
RECURSIVE TreesOfSize(_)
RECURSIVE ForestsOfSize(_)
TreesOfSize(n) ==
    (IF n = 1 THEN Leaves ELSE {})
    \cup {Obj([i \in 1..Len(f) |-> KeyName(i)], f) : f \in ForestsOfSize(n - 1)}
ForestsOfSize(m) ==
    IF m = 0 THEN {<<>>}
    ELSE UNION {{<<t>> \o f : t \in TreesOfSize(k), f \in ForestsOfSize(m - k)} :
                k \in 1..m}

FlattenNodes ==
    UNION {TreesOfSize(n) : n \in 1..MaxNodes}
    \cup {Undefined, Null, Scalar,
          Obj(<<KeyName(1), KeyName(2)>>, <<Arr(<<<<"x">>>>), Scalar>>),
          Obj(<<KeyName(1), KeyName(2)>>, <<Arr(<<<<"x">>>>), Null>>),
          Obj(<<KeyName(1)>>, <<Obj(<<KeyName(1)>>, <<Null>>)>>)}

InitFlatten ==
    /\ BuildIdle /\ SynthIdle
    /\ fNode \in FlattenNodes
    /\ fResult = Throw
    /\ fpc = "input"

\* flattenArray(node) is called
Flatten ==
    /\ fpc = "input"
    /\ fResult' = flattenArray(fNode)
    /\ fpc' = "done"
    /\ UNCHANGED <<fNode, buildVars, synthVars>>

NextFlatten == Flatten

SpecFlatten == InitFlatten /\ [][NextFlatten]_vars

\* the reference result: the node itself when it is a flat sequence, else the
\* concatenation, in iteration order, of the reference results of its values
RECURSIVE ReferenceFlatten(_)
RECURSIVE ReferenceConcat(_)
ReferenceFlatten(node) ==
    IF node.t = "arr" THEN node.items ELSE ReferenceConcat(node.kids)
ReferenceConcat(nodes) ==
    IF nodes = <<>> THEN <<>>
    ELSE ReferenceFlatten(Head(nodes)) \o ReferenceConcat(Tail(nodes))

Occurrences(seq, x) == Cardinality({i \in 1..Len(seq) : seq[i] = x})

\* how often x stands in the leaf arrays of a group
RECURSIVE LeafOccurrences(_, _)
RECURSIVE SumLeafOccurrences(_, _)
LeafOccurrences(node, x) ==
    IF node.t = "arr" THEN Occurrences(node.items, x)
    ELSE SumLeafOccurrences(node.kids, x)
SumLeafOccurrences(nodes, x) ==
    IF nodes = <<>> THEN 0
    ELSE LeafOccurrences(Head(nodes), x) + SumLeafOccurrences(Tail(nodes), x)

RECURSIVE Depth(_)
RECURSIVE MaxDepthOf(_)
Depth(node) == IF node.t = "obj" THEN 1 + MaxDepthOf(node.kids) ELSE 0
MaxDepthOf(nodes) ==
    IF nodes = <<>> THEN 0
    ELSE LET d == Depth(Head(nodes))
             r == MaxDepthOf(Tail(nodes))
         IN IF d > r THEN d ELSE r

\* C3: for every tree-shaped node flattenArray returns the reference result:
\* the node's own items when it is an array, else the concatenation in
\* iteration order of the flattened values; every name stands in the result
\* as often as in the leaves (so no key shows up unless a leaf holds it).
C3_FlattenIsReference ==
    (fpc = "done" /\ TreeShaped(fNode)) =>
        /\ ~fResult.err
        /\ fResult.val = ReferenceFlatten(fNode)
        /\ fNode.t = "arr" => fResult.val = fNode.items
        /\ \A x \in {<<"x">>, <<"k">>, <<"k", "k">>} :
              Occurrences(fResult.val, x) = LeafOccurrences(fNode, x)

\* a group three levels deep, one key holding an array, its sibling a mapping
C3_Witness ==
    /\ fpc = "done" /\ TreeShaped(fNode)
    /\ Depth(fNode) >= 3
    /\ \E i, j \in 1..Len(fNode.kids) :
          fNode.kids[i].t = "arr" /\ fNode.kids[j].t = "obj"
    /\ Len(fResult.val) >= 3
    /\ Occurrences(fResult.val, <<"k">>) = 1

----
\* The build script (Spec)

\* most edits of the taxonomy file
MaxEdits == 3
\* most notifications waiting for the callback
MaxEvents == 2

\* JSON.stringify of a rule list: keys and values in the order written
RECURSIVE StringifyRules(_)
RECURSIVE StringifyCaptures(_)
StringifyCaptures(captures) ==
    IF captures = <<>> THEN <<>>
    ELSE <<ToString(Head(captures).group), "{", "name", Head(captures).name, "}">>
         \o StringifyCaptures(Tail(captures))
StringifyRules(rules) ==
    IF rules = <<>> THEN <<>>
    ELSE LET r == Head(rules)
         IN (CASE r.kind = "include" -> <<"{", "include", "#" \o r.name, "}">>
               [] r.kind = "match" ->
                     <<"{", "name", r.name, "match", RegexSource(r.match), "}">>
               [] r.kind = "beginEnd" ->
                     <<"{", "name", r.name, "begin", RegexSource(r.begin)>>
                     \o (IF r.captures = <<>> THEN <<>>
                         ELSE <<"beginCaptures", "{">>
                              \o StringifyCaptures(r.captures) \o <<"}">>)
                     \o <<"end", RegexSource(r.end)>>
                     \o (IF r.patterns = <<>> THEN <<>>
                         ELSE <<"patterns", "[">>
                              \o StringifyRules(r.patterns) \o <<"]">>)
                     \o <<"}">>)
            \o StringifyRules(Tail(rules))

RECURSIVE StringifyRepository(_, _)
StringifyRepository(repository, names) ==
    IF names = <<>> THEN <<>>
    ELSE <<Head(names), "{", "patterns", "[">>
         \o StringifyRules(repository[Head(names)]) \o <<"]", "}">>
         \o StringifyRepository(repository, Tail(names))

\* JSON.stringify(grammar, null, 2), as the sequence of its keys and values
JSONStringify(grammar) ==
    <<"{", "name", grammar.name, "scopeName", grammar.scopeName,
      "fileTypes", "[">> \o grammar.fileTypes \o <<"]", "patterns", "[">>
    \o StringifyRules(grammar.patterns)
    \o <<"]", "repository", "{">>
    \o StringifyRepository(grammar.repository, RepositoryNames)
    \o <<"}", "}">>

\* a tokens.json that cannot be read or parsed
Malformed == [valid |-> FALSE, doc |-> Undefined]
FileOf(doc) == [valid |-> TRUE, doc |-> doc]

\* readTokens: JSON.parse throws on a malformed document
readTokens(file) == IF file.valid THEN Return(file.doc) ELSE Throw

\* what a run of main() did: what it threw, and the output file after it
Outcome(error, output) == [error |-> error, output |-> output]

mainBestEffort(file, output, writable) ==
    LET tokens == readTokens(file)
        grammar == IF tokens.err THEN Throw ELSE makeGrammar(tokens.val)
    IN IF tokens.err THEN Outcome("parse", output)
       ELSE IF grammar.err
       THEN Outcome("synth", JSONStringify(Grammar(<<>>, <<>>, <<>>, <<>>, <<>>)))
       ELSE IF ~writable THEN Outcome("write", output)
       ELSE Outcome("none", JSONStringify(grammar.val))

\* a main that opens the output for writing before it loads the taxonomy
mainTruncating(file, output, writable) ==
    LET tokens == readTokens(file)
        grammar == IF tokens.err THEN Throw ELSE makeGrammar(tokens.val)
    IN IF ~writable THEN Outcome("write", output)
       ELSE IF tokens.err THEN Outcome("parse", <<>>)
       ELSE IF grammar.err THEN Outcome("synth", <<>>)
       ELSE Outcome("none", JSONStringify(grammar.val))

mainAppending(file, output, writable) ==
    LET tokens == readTokens(file)
        grammar == IF tokens.err THEN Throw ELSE makeGrammar(tokens.val)
    IN IF tokens.err THEN Outcome("parse", output)
       ELSE IF grammar.err THEN Outcome("synth", output)
       ELSE IF ~writable THEN Outcome("write", output)
       ELSE Outcome("none", output \o JSONStringify(grammar.val))

\* main: readTokens, makeGrammar, writeFileSync; each may throw, and what
\* follows a throw is not run
main(file, output, writable) ==
    LET tokens == readTokens(file)
        grammar == IF tokens.err THEN Throw ELSE makeGrammar(tokens.val)
    IN IF tokens.err THEN Outcome("parse", output)
       ELSE IF grammar.err THEN Outcome("synth", output)
       ELSE IF ~writable THEN Outcome("write", output)
       ELSE Outcome("none", JSONStringify(grammar.val))

\* a taxonomy with every category present, some nested, some names prefixes
FullTaxonomy ==
    Taxonomy(Pairs(<<<<K_declaration, Arr(<<<<"b">>>>)>>, <<K_control, Arr(<<>>)>>>>),
             Pairs(<<<<K_ingredients, Arr(<<<<"a">>, <<"a", "b">>>>)>>,
                     <<K_utensils, Arr(<<>>)>>>>),
             Arr(<<<<"a">>, <<"a", "b">>>>),
             Pairs(<<<<K_utensil, Arr(<<<<"b">>>>)>>,
                     <<K_other, Pairs(<<<<K_utensils, Arr(<<<<"a", "b">>>>)>>>>)>>>>))
\* every category present and empty
EmptyCategories ==
    Taxonomy(Pairs(<<<<K_declaration, Arr(<<>>)>>, <<K_control, Arr(<<>>)>>>>),
             Pairs(<<>>), Arr(<<>>), Pairs(<<>>))
\* keywords and builtins absent, types and actions empty
SomeAbsent == Taxonomy(Undefined, Pairs(<<>>), Undefined, Pairs(<<>>))

TokenFiles ==
    {FileOf(ExampleTaxonomy), FileOf(FullTaxonomy), FileOf(EmptyCategories),
     FileOf(SomeAbsent), FileOf(Pairs(<<>>)), Malformed}

\* the output file of an earlier run, from another taxonomy
EarlierOutput == JSONStringify(makeGrammar(PrefixTaxonomy).val)

Init ==
    /\ FlattenIdle /\ SynthIdle
    /\ isWatchMode \in BOOLEAN
    /\ pc = "start"
    /\ exitCode = "none"
    /\ tokensFile \in TokenFiles
    /\ outputFile \in {<<>>, EarlierOutput}
    /\ outputWritable \in BOOLEAN
    /\ events = <<>>
    /\ lastError = "none"
    /\ builds = 0
    /\ edits = 0
    /\ refBuild = NoBuild

\* a successful build may be the one remembered for later comparison
Remember(result) ==
    \/ refBuild' = refBuild
    \/ /\ result.error = "none"
       /\ refBuild' = [taken |-> TRUE, at |-> builds + 1, read |-> tokensFile,
                       wrote |-> result.output]

\* node build-grammar.mjs: main(), and the process ends; an exception main
\* throws is uncaught and ends it with status 1
RunOneShot ==
    /\ pc = "start" /\ ~isWatchMode
    /\ LET result == main(tokensFile, outputFile, outputWritable)
       IN /\ outputFile' = result.output
          /\ lastError' = result.error
          /\ exitCode' = IF result.error = "none" THEN "0" ELSE "1"
          /\ Remember(result)
    /\ pc' = "exited"
    /\ builds' = builds + 1
    /\ UNCHANGED <<isWatchMode, tokensFile, outputWritable, events, edits,
                   flatVars, synthVars>>

\* node build-grammar.mjs --watch: the initial main(), outside any try, then
\* fs.watch; an exception of the initial build ends the process before
\* fs.watch is reached
StartWatch ==
    /\ pc = "start" /\ isWatchMode
    /\ LET result == main(tokensFile, outputFile, outputWritable)
       IN /\ outputFile' = result.output
          /\ lastError' = result.error
          /\ pc' = IF result.error = "none" THEN "watching" ELSE "exited"
          /\ exitCode' = IF result.error = "none" THEN "none" ELSE "1"
          /\ Remember(result)
    /\ builds' = builds + 1
    /\ UNCHANGED <<isWatchMode, tokensFile, outputWritable, events, edits,
                   flatVars, synthVars>>

\* someone rewrites tokens.json; a registered watcher is notified, with the
\* event type the file system reports
EditTaxonomy ==
    /\ pc # "exited"
    /\ edits < MaxEdits
    /\ Len(events) < MaxEvents
    /\ \E file \in TokenFiles \ {tokensFile} :
          tokensFile' = file
    /\ edits' = edits + 1
    /\ \E eventType \in {"change", "rename"} :
          events' = IF pc = "watching" THEN Append(events, eventType) ELSE events
    /\ UNCHANGED <<isWatchMode, pc, exitCode, outputFile, outputWritable,
                   lastError, builds, refBuild, flatVars, synthVars>>

\* the output location becomes writable or unwritable
ChangeWritable ==
    /\ pc # "exited"
    /\ outputWritable' = ~outputWritable
    /\ UNCHANGED <<isWatchMode, pc, exitCode, tokensFile, outputFile, events,
                   lastError, builds, edits, refBuild, flatVars, synthVars>>

\* the fs.watch callback: on 'change', main() inside try/catch
WatchCallback ==
    /\ pc = "watching"
    /\ events # <<>>
    /\ events' = Tail(events)
    /\ IF Head(events) = "change"
       THEN LET result == main(tokensFile, outputFile, outputWritable)
            IN /\ outputFile' = result.output
               /\ lastError' = result.error
               /\ Remember(result)
               /\ builds' = builds + 1
       ELSE UNCHANGED <<outputFile, lastError, refBuild, builds>>
    /\ UNCHANGED <<isWatchMode, pc, exitCode, tokensFile, outputWritable, edits,
                   flatVars, synthVars>>

Next ==
    \/ RunOneShot
    \/ StartWatch
    \/ EditTaxonomy
    \/ ChangeWritable
    \/ WatchCallback

Spec == Init /\ [][Next]_vars

----
\* Claims about the build script (Spec)

\* C8: in watch mode a build that fails, the initial one included, is logged
\* and skipped: after it the process has not ended and the watcher is
\* registered.
C8_WatchSurvivesFailure ==
    (isWatchMode /\ lastError # "none") => (pc = "watching" /\ exitCode = "none")

LoadOrSynthesisFails(file) ==
    readTokens(file).err \/ makeGrammar(readTokens(file).val).err

\* C9: in one-shot mode a run whose taxonomy fails to load or to synthesize
\* ends with a non-zero exit status and leaves the output file as it was.
C9_OneShotFailureWritesNothing ==
    [][(~isWatchMode /\ pc = "start" /\ pc' = "exited"
          /\ LoadOrSynthesisFails(tokensFile))
       => (/\ exitCode' = "1"
           /\ lastError' \in {"parse", "synth"}
           /\ outputFile' = outputFile)]_vars

C9_Witness ==
    /\ ~isWatchMode /\ pc = "exited" /\ exitCode = "1"
    /\ lastError = "synth"
    /\ outputWritable
    /\ outputFile = EarlierOutput

\* C10: a build that succeeds from the taxonomy content an earlier successful
\* build read writes the very artifact that build wrote, whatever was built,
\* or failed to build, in between.
C10_SameContentSameArtifact ==
    [][(builds' # builds /\ lastError' = "none"
          /\ refBuild.taken /\ refBuild.read = tokensFile)
       => outputFile' = refBuild.wrote]_vars

\* the content of the remembered build has been built again, with another
\* build between the two
C10_Witness ==
    /\ refBuild.taken /\ refBuild.read = tokensFile
    /\ builds >= refBuild.at + 2
    /\ lastError = "none"
    /\ outputFile = refBuild.wrote
    /\ edits = MaxEdits
    /\ events = <<>>

\* the artifact a build that reads file in full and succeeds leaves
ArtifactOf(file) == JSONStringify(makeGrammar(readTokens(file).val).val)

\* C11: in watch mode every notification the watcher delivers, whatever its
\* event type, runs exactly one build; and when the notification handled is
\* the last one pending, the taxonomy loads and synthesizes and the output is
\* writable, the artifact after it is the one of the current taxonomy.
C11_EveryNotificationRebuilds ==
    [][(pc = "watching" /\ events # <<>> /\ events' = Tail(events))
       => (/\ builds' = builds + 1
           /\ (events' = <<>> /\ ~LoadOrSynthesisFails(tokensFile)
                 /\ outputWritable)
              => outputFile' = ArtifactOf(tokensFile))]_vars

\* C12: builds run one at a time and the artifact is never corrupted: every
\* step that changes the output file is one successful build, and leaves
\* exactly the complete serialization of the rule set synthesized from the
\* taxonomy content that build read; a build that fails at load or synthesis
\* leaves the output file as it was. So the output file is always its content
\* before the first build, or the whole artifact of one build.
C12_ArtifactNeverCorrupted ==
    [][/\ outputFile' # outputFile
          => (/\ builds' = builds + 1
              /\ lastError' = "none"
              /\ ~LoadOrSynthesisFails(tokensFile)
              /\ outputFile' = ArtifactOf(tokensFile))
       /\ builds' # builds
          => (/\ builds' = builds + 1
              /\ LoadOrSynthesisFails(tokensFile) => outputFile' = outputFile)
      ]_vars

\* after the initial build and at least two rebuilds by the watcher, every
\* edit made and every notification handled, the last rebuild failed at load
\* and the whole artifact of an earlier build stands
C12_Witness ==
    /\ pc = "watching"
    /\ builds >= 3
    /\ edits = MaxEdits
    /\ events = <<>>
    /\ lastError = "parse"
    /\ tokensFile = Malformed
    /\ outputFile # EarlierOutput
    /\ outputFile # <<>>
    /\ \E file \in TokenFiles :
          /\ ~LoadOrSynthesisFails(file)
          /\ outputFile = ArtifactOf(file)

====
